---- MODULE Spec2Model ----
(***************************************************************************)
(* A model of the mvsim sensor pipeline (SensorBase.cpp) and of the part   *)
(* of the World interface (World.h) that drives it.                        *)
(*                                                                         *)
(* Simulated time is a C++ double (World.h: m_simul_time,                  *)
(* m_simul_timestep; SensorBase: m_sensor_period,                          *)
(* m_sensor_last_timestamp).  A double d >= 0 is represented exactly by    *)
(* the integer d * 2^56, held in two limbs [hi, lo] of Base = 2^30, and    *)
(* every sum or difference is rounded to 53 significant bits, to nearest,  *)
(* ties to even, as IEEE-754 binary64 does.                                *)
(***************************************************************************)
EXTENDS Integers, Sequences, FiniteSets, TLC

(***************************************************************************)
(* Bounds of the model.                                                    *)
(***************************************************************************)
MaxRuns == 2
MaxExtraCalls == 1
MaxPose == 1
MaxOps == 3
MaxVehicles == 2
MaxConfigCalls == 3
MaxReports == 3
MaxSensors == 1
MaxObjects == 4
MaxCloseCalls == 2
MaxOpenQueries == 3
MaxFrames == 3
MaxPassSteps == 2
MaxRegisterCalls == 2

(***************************************************************************)
(* IEEE-754 binary64 values in [0, 32), in units of 2^-56.                 *)
(***************************************************************************)
Base == 2^30

MantissaTop == 2^23

D(h, l) == [hi |-> h, lo |-> l]

D_0 == D(0, 0)

D_0_1 == D(6710886, 429496730)

D_0_25 == D(16777216, 0)

D_0_3 == D(20132659, 214748364)

D_0_5 == D(33554432, 0)

D_1_0 == D(67108864, 0)

\* a < b on doubles
DLess(a, b) == a.hi < b.hi \/ (a.hi = b.hi /\ a.lo < b.lo)

DLeq(a, b) == ~DLess(b, a)

\* the spacing of the doubles in the binade of a value whose high limb is hi
RECURSIVE Quantum(_)
Quantum(hi) == IF hi < MantissaTop THEN 1 ELSE 2 * Quantum(hi \div 2)

\* the exact value hi * Base + lo rounded to the nearest double, ties to even
RoundToDouble(hi, lo) ==
  LET q == Quantum(hi)
      r == lo % q
      down == lo - r
      up == (2 * r > q) \/ (2 * r = q /\ (down \div q) % 2 = 1)
      lo2 == IF up THEN down + q ELSE down
  IN IF lo2 = Base THEN D(hi + 1, 0) ELSE D(hi, lo2)

\* the exact sum (no rounding)
ExactAdd(a, b) ==
  LET s == a.lo + b.lo
  IN D(a.hi + b.hi + (s \div Base), s % Base)

\* the exact difference a - b, for a >= b
ExactSub(a, b) ==
  LET borrow == IF a.lo < b.lo THEN 1 ELSE 0
  IN D(a.hi - b.hi - borrow, a.lo - b.lo + borrow * Base)

\* a + b as the double the processor computes
DAdd(a, b) == LET e == ExactAdd(a, b) IN RoundToDouble(e.hi, e.lo)

\* a - b (a >= b) as the double the processor computes
DSub(a, b) == LET e == ExactSub(a, b) IN RoundToDouble(e.hi, e.lo)

\* k * x exactly
RECURSIVE ExactTimes(_, _)
ExactTimes(k, x) == IF k = 0 THEN D_0 ELSE ExactAdd(x, ExactTimes(k - 1, x))

\* the exact sum of a sequence of doubles
RECURSIVE ExactSum(_)
ExactSum(s) == IF s = <<>> THEN D_0 ELSE ExactAdd(Head(s), ExactSum(Tail(s)))

(***************************************************************************)
(* The inputs the model draws: fixed timesteps, sensor periods and         *)
(* requested intervals (seconds).                                          *)
(***************************************************************************)
Timesteps == {D_0_1, D_0_25}

Periods == {D_0, D_0_1, D_0_5}

Intervals == {D_0, D_0_3, D_1_0}

Poses == 0..MaxPose

VARIABLES
  \* World
  m_simul_timestep,     \* World.h: fixed timestep h
  m_simul_time,         \* World.h: the simulation clock
  pendingTime,          \* the stepping engine's pending-time accumulator
  runPc,                \* "idle" | "stepping": position inside run_simulation
  vehiclePose,          \* m_vehicle.getPose()
  \* SensorBase
  m_sensor_period,
  m_sensor_last_timestamp,
  m_vehicle_pose_at_last_timestamp,
  \* observers of the stepping runs and of the gate
  requested,            \* the dt of every run_simulation call, in order
  rounded,              \* some sum of the stepping engine was not exact
  gateCalls,            \* number of should_simulate_sensor calls so far
  gateCtx,              \* context.simul_time of the last call
  gateRet,              \* result of the last call
  prevCtx,              \* context.simul_time of the call before the last
  prevRet,              \* result of the call before the last
  trueTimes,            \* context.simul_time of every true result, in order
  extraCalls,           \* gate calls made outside the once-per-step hook
  \* the sensor type registry (SensorBase.cpp:33-48)
  done,                 \* register_all_sensors: static bool done
  classFactory_sensors, \* type name -> the class whose constructor is bound
  regCount,             \* type name -> number of times it was registered
  createOnMiss,         \* what create does for an unregistered name
  \* SensorBase::factory and the scene load
  factoryRoot,          \* the node given to the last factory call
  factoryResult,        \* what the last factory call returned or threw
  factoryCreates,       \* classFactory_sensors.create calls it made
  m_vehicles,           \* World.h: the vehicles registered in the World
  m_world_elements,     \* World.h: the world elements registered
  loadScene,            \* the scene given to the last load_from_XML
  loadResult,           \* "none" | "ok" | the error the last load threw
  opsDone,              \* registry, factory and load operations so far
  \* SensorBase configuration (SensorBase.cpp:124-153, 216-234)
  m_name,               \* the sensor's name ("" until assigned)
  m_varValues,          \* the variables ${NAME} and ${PARENT_NAME} expand to
  publishTopic_,        \* the publish topic, a token sequence (<<>>: empty)
  m_save_to_rawlog,     \* the log sink path ("": none)
  parseNode,            \* the node given to the last parseSensorPublish
  parseRet,             \* what the last parseSensorPublish returned
  parseCalls,           \* parseSensorPublish calls so far
  configCalls,          \* configuration operations so far
  \* SensorBase::reportNewObservation (SensorBase.cpp:155-202)
  hasZmqProtobuf,       \* MVSIM_HAS_ZMQ and MVSIM_HAS_PROTOBUF both defined
  reported,             \* the observations given to reportNewObservation
  taskQueue,            \* m_threadPoolSendoutObs: the tasks not yet started
  worker,               \* m_threadPoolSendoutObs: each thread's task and step
  futures,              \* the shared state of each task's future
  hookCalls,            \* the calls of the World's observation hook
  publishCalls,         \* the calls of commsClient().publishTopic
  m_rawlog_io,          \* the log stream: "null" or "open"
  logOpens,             \* the log streams constructed so far
  logAppends,           \* the observations written to the log stream
  steppingThreadErrors, \* the errors raised in the reporting thread
  \* SensorBase::registerOnServer (SensorBase.cpp:204-214)
  advertised,           \* the topics given to Client::advertiseTopic, in order
  \* World: the registries and their visitors (World.h:153-201, 259-260)
  listOfVehicles,       \* m_vehicles as a multimap: (name, vehicle) entries
  listOfWorldElements,  \* m_world_elements as a list of world elements
  nextObject,           \* the next object to be constructed
  visited,              \* the objects the last visitor run visited, in order
  lastVisitor,          \* the last visitor run: "none", "vehicles", "elements"
  \* World: the GUI thread and its flags (World.h:118-147)
  m_gui_thread,         \* "not started", "running" or "finished"
  m_gui_thread_running, \* std::atomic_bool
  m_gui_thread_must_close, \* std::atomic_bool
  guiFrames,            \* the frames the GUI thread has rendered
  closeCalls,           \* the close_GUI() calls so far
  openQueries,          \* the is_GUI_open() calls so far
  is_GUI_open_ret,      \* what the last is_GUI_open() returned
  \* World: the world lock (World.h:252-264)
  m_world_cs,           \* std::mutex: "free" or the thread that holds it
  numEntities,          \* the entities in m_vehicles, m_world_elements, m_blocks
  m_box2d_world,        \* the bodies in the Box2D world
  solverSteps,          \* the steps the physical solver has made
  entitySteps,          \* the steps the entities have been updated for
  stepperPc,            \* the stepping thread's position in run_simulation
  stepsLeft,            \* the discrete steps left of the stepping pass
  rendererPc,           \* the rendering thread's position in update_GUI
  snapshot,             \* what update_GUI has copied out so far
  \* two threads in SensorBase::factory (SensorBase.cpp:37-48, 87-116)
  threadPc,             \* each thread's position in factory
  threadResult          \* what each thread's factory call returned or threw

stepVars == <<m_simul_timestep, m_simul_time, pendingTime, runPc, vehiclePose,
              m_sensor_period, m_sensor_last_timestamp,
              m_vehicle_pose_at_last_timestamp, requested, rounded, gateCalls,
              gateCtx, gateRet, prevCtx, prevRet, trueTimes, extraCalls>>

regVars == <<done, classFactory_sensors, regCount, createOnMiss>>

loadVars == <<factoryRoot, factoryResult, factoryCreates, m_vehicles,
              m_world_elements, loadScene, loadResult, opsDone>>

configVars == <<m_name, m_varValues, publishTopic_, m_save_to_rawlog,
                parseNode, parseRet, parseCalls, configCalls>>

dispatchVars == <<hasZmqProtobuf, reported, taskQueue, worker, futures,
                  hookCalls, publishCalls, m_rawlog_io, logOpens, logAppends,
                  steppingThreadErrors>>

serverVars == <<advertised>>

visitVars == <<listOfVehicles, listOfWorldElements, nextObject, visited,
               lastVisitor>>

guiVars == <<m_gui_thread, m_gui_thread_running, m_gui_thread_must_close,
             guiFrames, closeCalls, openQueries, is_GUI_open_ret>>

lockVars == <<m_world_cs, numEntities, m_box2d_world, solverSteps,
              entitySteps, stepperPc, stepsLeft, rendererPc, snapshot>>

raceVars == <<threadPc, threadResult>>

restButServer == <<visitVars, guiVars, lockVars, raceVars>>

restVars == <<serverVars, visitVars, guiVars, lockVars, raceVars>>

vars == <<stepVars, regVars, loadVars, configVars, dispatchVars, restVars>>

(***************************************************************************)
(* SensorBase::should_simulate_sensor (SensorBase.cpp:248-258), as a       *)
(* function of the context clock and the fields it reads; it yields the    *)
(* returned value and the two fields it may write.                         *)
(***************************************************************************)
should_simulate_sensor_late(simul_time, last, period, poseAtLast, pose) ==
  IF DLeq(simul_time, DAdd(last, period))
  THEN [ret |-> FALSE, last |-> last, pose |-> poseAtLast]
  ELSE [ret |-> TRUE, last |-> simul_time, pose |-> pose]

should_simulate_sensor_no_stamp(simul_time, last, period, poseAtLast, pose) ==
  IF DLess(simul_time, DAdd(last, period))
  THEN [ret |-> FALSE, last |-> last, pose |-> poseAtLast]
  ELSE [ret |-> TRUE, last |-> last, pose |-> pose]

should_simulate_sensor(simul_time, last, period, poseAtLast, pose) ==
  IF DLess(simul_time, DAdd(last, period))
  THEN [ret |-> FALSE, last |-> last, pose |-> poseAtLast]
  ELSE [ret |-> TRUE, last |-> simul_time, pose |-> pose]

\* one call of the gate on the sensor, with the given context clock and the
\* owning vehicle's pose at the time of the call
GateCall(simul_time, pose) ==
  LET r == should_simulate_sensor(simul_time, m_sensor_last_timestamp,
                                  m_sensor_period,
                                  m_vehicle_pose_at_last_timestamp, pose)
  IN /\ m_sensor_last_timestamp' = r.last
     /\ m_vehicle_pose_at_last_timestamp' = r.pose
     /\ gateCalls' = gateCalls + 1
     /\ prevCtx' = gateCtx
     /\ prevRet' = gateRet
     /\ gateCtx' = simul_time
     /\ gateRet' = r.ret
     /\ trueTimes' = IF r.ret THEN Append(trueTimes, simul_time) ELSE trueTimes

(***************************************************************************)
(* World::run_simulation(dt) (World.h:91-96) and internal_one_timestep     *)
(* (World.h:263-264).  Their bodies are not in the sources at hand; they   *)
(* follow the stepping engine's transition rule: accumulate dt, and while  *)
(* the pending time is at least h take one step of length h.               *)
(***************************************************************************)
run_simulation_call(dt) ==
  /\ runPc = "idle"
  /\ Len(requested) < MaxRuns
  /\ runPc' = "stepping"
  /\ pendingTime' = DAdd(pendingTime, dt)
  /\ rounded' = (rounded \/ DAdd(pendingTime, dt) # ExactAdd(pendingTime, dt))
  /\ requested' = Append(requested, dt)
  /\ UNCHANGED <<m_simul_timestep, m_simul_time, vehiclePose, m_sensor_period,
                 m_sensor_last_timestamp, m_vehicle_pose_at_last_timestamp,
                 gateCalls, gateCtx, gateRet, prevCtx, prevRet, trueTimes,
                 extraCalls>>

\* a step whose length is all the pending time instead of h
internal_one_timestep_variable ==
  /\ runPc = "stepping"
  /\ DLeq(m_simul_timestep, pendingTime)
  /\ \E p \in Poses :
       /\ vehiclePose' = p
       /\ GateCall(DAdd(m_simul_time, pendingTime), p)
  /\ m_simul_time' = DAdd(m_simul_time, pendingTime)
  /\ pendingTime' = D_0
  /\ rounded' = (rounded \/ DAdd(m_simul_time, pendingTime)
                              # ExactAdd(m_simul_time, pendingTime))
  /\ UNCHANGED <<m_simul_timestep, runPc, m_sensor_period, requested,
                 extraCalls>>

\* one discrete step: the solver moves the vehicle, the clock advances by h,
\* and the per-step update hook evaluates the sensor's gate once
internal_one_timestep ==
  /\ runPc = "stepping"
  /\ DLeq(m_simul_timestep, pendingTime)
  /\ \E p \in Poses :
       /\ vehiclePose' = p
       /\ GateCall(DAdd(m_simul_time, m_simul_timestep), p)
  /\ m_simul_time' = DAdd(m_simul_time, m_simul_timestep)
  /\ pendingTime' = DSub(pendingTime, m_simul_timestep)
  /\ rounded' = (\/ rounded
                 \/ DAdd(m_simul_time, m_simul_timestep)
                      # ExactAdd(m_simul_time, m_simul_timestep)
                 \/ DSub(pendingTime, m_simul_timestep)
                      # ExactSub(pendingTime, m_simul_timestep))
  /\ UNCHANGED <<m_simul_timestep, runPc, m_sensor_period, requested,
                 extraCalls>>

run_simulation_return ==
  /\ runPc = "stepping"
  /\ DLess(pendingTime, m_simul_timestep)
  /\ runPc' = "idle"
  /\ UNCHANGED <<m_simul_timestep, m_simul_time, pendingTime, vehiclePose,
                 m_sensor_period, m_sensor_last_timestamp,
                 m_vehicle_pose_at_last_timestamp, requested, rounded,
                 gateCalls, gateCtx, gateRet, prevCtx, prevRet, trueTimes,
                 extraCalls>>

\* a sensor asking its gate again at the current clock value
should_simulate_sensor_again ==
  /\ extraCalls < MaxExtraCalls
  /\ gateCalls > 0
  /\ GateCall(m_simul_time, vehiclePose)
  /\ extraCalls' = extraCalls + 1
  /\ UNCHANGED <<m_simul_timestep, m_simul_time, pendingTime, runPc,
                 vehiclePose, m_sensor_period, requested, rounded>>

StepInit(hs, ps) ==
  /\ m_simul_timestep \in hs
  /\ m_simul_time = D_0
  /\ pendingTime = D_0
  /\ runPc = "idle"
  /\ vehiclePose = 0
  /\ m_sensor_period \in ps
  /\ m_sensor_last_timestamp = D_0
  /\ m_vehicle_pose_at_last_timestamp = 0
  /\ requested = <<>>
  /\ rounded = FALSE
  /\ gateCalls = 0
  /\ gateCtx = D_0
  /\ gateRet = FALSE
  /\ prevCtx = D_0
  /\ prevRet = FALSE
  /\ trueTimes = <<>>
  /\ extraCalls = 0

(***************************************************************************)
(* The sensor type registry: classFactory_sensors and register_all_sensors *)
(* (SensorBase.cpp:33-48).                                                 *)
(***************************************************************************)
Unregistered == "unregistered"

\* the type names the model looks up; "lidar3d" is never registered
TypeNames == {"laser", "rgbd_camera", "camera", "lidar3d"}

\* REGISTER_SENSOR(name, class): binds the class's constructor to the name
REGISTER_SENSOR(st, name, class) ==
  [done |-> st.done,
   factory |-> [st.factory EXCEPT ![name] = class],
   count |-> [st.count EXCEPT ![name] = @ + 1],
   onMiss |-> st.onMiss]

\* register_all_sensors without its "done" guard
register_all_sensors_unguarded(st) ==
  REGISTER_SENSOR(
    REGISTER_SENSOR(
      REGISTER_SENSOR([st EXCEPT !.done = TRUE], "laser", "LaserScanner"),
      "rgbd_camera", "DepthCameraSensor"),
    "camera", "CameraSensor")

\* register_all_sensors(), on the registry state st = [done, factory, count]
register_all_sensors(st) ==
  IF st.done
  THEN st
  ELSE REGISTER_SENSOR(
         REGISTER_SENSOR(
           REGISTER_SENSOR([st EXCEPT !.done = TRUE], "laser", "LaserScanner"),
           "rgbd_camera", "DepthCameraSensor"),
         "camera", "CameraSensor")

RegistryState == [done |-> done, factory |-> classFactory_sensors,
                  count |-> regCount, onMiss |-> createOnMiss]

SetRegistry(st) ==
  /\ done' = st.done
  /\ classFactory_sensors' = st.factory
  /\ regCount' = st.count
  /\ UNCHANGED createOnMiss

(***************************************************************************)
(* SensorBase::factory (SensorBase.cpp:87-122).  A call yields the         *)
(* registry state it leaves, the number of create calls it made, and what  *)
(* it returned (kind "sensor") or threw (kind "error": what names the      *)
(* error, arg the string formatted into its message).                      *)
(***************************************************************************)
NoAttr == "no attribute"

Node(n, c) == [null |-> FALSE, name |-> n, class |-> c]

\* root == nullptr
NullNode == [null |-> TRUE, name |-> "", class |-> NoAttr]

Outcome(k, w, a) == [kind |-> k, what |-> w, arg |-> a]

NoOutcome == Outcome("none", "", "")

\* classFactory_sensors.create(sName, parent, root): the constructor bound to
\* the name builds the sensor.  For an unregistered name the lookup misses,
\* and create either returns a null pointer (the case factory tests for) or
\* fails itself with an unknown-type error naming the type.
MissBehaviours == {"returns null", "throws"}

create(registry, sName, onMiss) ==
  IF registry[sName] # Unregistered
  THEN Outcome("sensor", registry[sName], sName)
  ELSE IF onMiss = "returns null"
  THEN Outcome("null", "", "")
  ELSE Outcome("error", "UnknownTypeError", sName)

\* factory with the 'class' attribute not checked: an absent attribute is
\* looked up as the empty name
factory_class_unchecked(root, st) ==
  LET st1 == register_all_sensors(st)
  IN IF root.null
     THEN [st |-> st1, creates |-> 0,
           result |-> Outcome("error", "XML node is nullptr", "")]
     ELSE IF root.name # "sensor"
     THEN [st |-> st1, creates |-> 0,
           result |-> Outcome("error", "XML root element is not 'sensor'",
                              root.name)]
     ELSE LET we == IF root.class = NoAttr
                    THEN Outcome("null", "", "")
                    ELSE create(st1.factory, root.class, st.onMiss)
          IN [st |-> st1, creates |-> 1,
              result |-> IF we.kind = "null"
                         THEN Outcome("error", "Unknown sensor type",
                                      root.name)
                         ELSE we]

factory(root, st) ==
  LET st1 == register_all_sensors(st)
  IN IF root.null
     THEN [st |-> st1, creates |-> 0,
           result |-> Outcome("error", "XML node is nullptr", "")]
     ELSE IF root.name # "sensor"
     THEN [st |-> st1, creates |-> 0,
           result |-> Outcome("error", "XML root element is not 'sensor'",
                              root.name)]
     ELSE IF root.class = NoAttr
     THEN [st |-> st1, creates |-> 0,
           result |-> Outcome("error", "Missing mandatory attribute 'class'",
                              "class")]
     ELSE LET we == create(st1.factory, root.class, st.onMiss)
          IN [st |-> st1, creates |-> 1,
              result |-> IF we.kind = "null"
                         THEN Outcome("error", "Unknown sensor type",
                                      root.name)
                         ELSE we]

(***************************************************************************)
(* World::load_from_XML (World.h:51-60).  Its body is not in the sources   *)
(* at hand; it follows the scene loader's contract: the World is cleared,  *)
(* every declared entity is constructed in order (a vehicle's sensors      *)
(* through SensorBase::factory), and the first failure aborts the load     *)
(* and leaves the World cleared.                                           *)
(***************************************************************************)
\* the sensors of one vehicle, in order, until one fails; last is the last
\* factory call made (its root, creates and result)
RECURSIVE LoadSensors(_, _, _, _)
LoadSensors(nodes, st, sensors, last) ==
  IF nodes = <<>>
  THEN [err |-> NoOutcome, sensors |-> sensors, st |-> st, last |-> last]
  ELSE LET f == factory(Head(nodes), st)
           l == [root |-> Head(nodes), creates |-> f.creates,
                 result |-> f.result]
       IN IF f.result.kind = "error"
          THEN [err |-> f.result, sensors |-> sensors, st |-> f.st, last |-> l]
          ELSE LoadSensors(Tail(nodes), f.st, Append(sensors, f.result), l)

RECURSIVE LoadVehicles(_, _, _, _)
LoadVehicles(descs, st, vehicles, last) ==
  IF descs = <<>>
  THEN [err |-> NoOutcome, vehicles |-> vehicles, st |-> st, last |-> last]
  ELSE LET v == LoadSensors(Head(descs), st, <<>>, last)
       IN IF v.err.kind = "error"
          THEN [err |-> v.err, vehicles |-> vehicles, st |-> v.st,
                last |-> v.last]
          ELSE LoadVehicles(Tail(descs), v.st, Append(vehicles, v.sensors),
                            v.last)

LastFactoryCall == [root |-> factoryRoot, creates |-> factoryCreates,
                    result |-> factoryResult]

SetLastFactoryCall(l) ==
  /\ factoryRoot' = l.root
  /\ factoryCreates' = l.creates
  /\ factoryResult' = l.result

\* the nodes, vehicle descriptions and scenes the model draws
ClassAttrs == {NoAttr, "laser", "rgbd_camera", "camera", "lidar3d"}

Roots == {NullNode} \cup {Node(n, c) : n \in {"sensor", "vehicle"},
                                       c \in ClassAttrs}

SceneNodes == {Node("sensor", c) : c \in {NoAttr, "laser", "lidar3d"}}

VehicleDescs == {<<>>} \cup {<<n>> : n \in SceneNodes}

RECURSIVE SeqsUpTo(_, _)
SeqsUpTo(S, n) ==
  IF n = 0 THEN {<<>>}
  ELSE LET shorter == SeqsUpTo(S, n - 1)
       IN shorter \cup {Append(q, x) : q \in shorter, x \in S}

Scenes == [elements : {0, 1}, vehicles : SeqsUpTo(VehicleDescs, MaxVehicles)]

\* a direct call of register_all_sensors()
register_all_sensors_call ==
  /\ opsDone < MaxOps
  /\ opsDone' = opsDone + 1
  /\ SetRegistry(register_all_sensors(RegistryState))
  /\ UNCHANGED <<factoryRoot, factoryResult, factoryCreates, m_vehicles,
                 m_world_elements, loadScene, loadResult>>

\* a call of SensorBase::factory(parent, root)
factory_call(root) ==
  LET f == factory(root, RegistryState)
  IN /\ opsDone < MaxOps
     /\ opsDone' = opsDone + 1
     /\ SetRegistry(f.st)
     /\ SetLastFactoryCall([root |-> root, creates |-> f.creates,
                            result |-> f.result])
     /\ UNCHANGED <<m_vehicles, m_world_elements, loadScene, loadResult>>

\* a call of World::load_from_XML on a scene
load_from_XML(scene) ==
  LET r == LoadVehicles(scene.vehicles, RegistryState, <<>>, LastFactoryCall)
  IN /\ opsDone < MaxOps
     /\ opsDone' = opsDone + 1
     /\ SetRegistry(r.st)
     /\ SetLastFactoryCall(r.last)
     /\ loadScene' = scene
     /\ IF r.err.kind = "error"
        THEN /\ m_vehicles' = <<>>
             /\ m_world_elements' = 0
             /\ loadResult' = r.err
        ELSE /\ m_vehicles' = r.vehicles
             /\ m_world_elements' = scene.elements
             /\ loadResult' = Outcome("ok", "", "")

FactoryInit ==
  /\ done = FALSE
  /\ classFactory_sensors = [n \in TypeNames |-> Unregistered]
  /\ regCount = [n \in TypeNames |-> 0]
  /\ createOnMiss \in MissBehaviours
  /\ factoryRoot = NullNode
  /\ factoryResult = NoOutcome
  /\ factoryCreates = 0
  /\ m_vehicles = <<>>
  /\ m_world_elements = 0
  /\ loadScene = [elements |-> 0, vehicles |-> <<>>]
  /\ loadResult = NoOutcome
  /\ opsDone = 0

(***************************************************************************)
(* SensorBase::parseSensorPublish (SensorBase.cpp:124-153) and             *)
(* SensorBase::loadConfigFrom (SensorBase.cpp:216-234).  A string is a     *)
(* sequence of tokens, so that the expansion of ${NAME} and                *)
(* ${PARENT_NAME} done by the XML parameter parser is a computation; the   *)
(* empty string is <<>>.                                                   *)
(***************************************************************************)
NoChild == <<"no child">>

VehicleName == "r1"

\* the text of a parameter with its variables replaced by their values
\* (parse_xmlnode_children_as_param, format "%s")
ParseString(raw, varValues) ==
  LET expanded == [i \in 1..Len(raw) |->
                     IF raw[i] = "${NAME}" THEN varValues.NAME
                     ELSE IF raw[i] = "${PARENT_NAME}"
                     THEN varValues.PARENT_NAME
                     ELSE raw[i]]
      NonEmpty(t) == t # ""
  IN SelectSeq(expanded, NonEmpty)

\* a <publish> node: its publish_topic child (or NoChild) and its 'enabled'
\* attribute (or NoAttr)
PublishNode(t, e) == [null |-> FALSE, publish_topic |-> t, enabled |-> e]

NullPublishNode == [null |-> TRUE, publish_topic |-> NoChild,
                    enabled |-> NoAttr]

\* parseSensorPublish that keeps the topic when enabled is false
parseSensorPublish_keeps_topic(node, varValues, topic) ==
  IF node.null
  THEN [ret |-> FALSE, topic |-> topic]
  ELSE [ret |-> TRUE,
        topic |-> IF node.publish_topic = NoChild
                  THEN topic
                  ELSE ParseString(node.publish_topic, varValues)]

\* parseSensorPublish(node, varValues) on the current publishTopic_: the
\* returned value and the topic it leaves
parseSensorPublish(node, varValues, topic) ==
  IF node.null
  THEN [ret |-> FALSE, topic |-> topic]
  ELSE LET parsed == IF node.publish_topic = NoChild
                     THEN topic
                     ELSE ParseString(node.publish_topic, varValues)
           publishEnabled == IF node.enabled = NoAttr
                             THEN TRUE
                             ELSE node.enabled = "true"
       IN [ret |-> TRUE,
           topic |-> IF ~publishEnabled THEN <<>> ELSE parsed]

\* the <sensor> node has no sensor_period child
NoPeriod == [hi |-> -1, lo |-> 0]

RawTopics == {<<"/scan">>, <<"${NAME}", "/scan">>}

PublishNodes == {NullPublishNode} \cup
                {PublishNode(t, e) : t \in {NoChild} \cup RawTopics,
                                     e \in {NoAttr, "true", "false"}}

\* a <sensor> node as loadConfigFrom reads it: the 'name' attribute, the
\* <publish> child (null when absent), and the sensor_period and
\* save_to_rawlog children
SensorConfigs == [name : {NoAttr, "lidar1", "lidar2"},
                  publish : {NullPublishNode,
                             PublishNode(<<"${NAME}", "/scan">>, NoAttr),
                             PublishNode(<<"/scan">>, "false")},
                  sensor_period : {NoPeriod, D_0_5},
                  save_to_rawlog : {NoAttr, "obs.rawlog"}]

\* a call of parseSensorPublish(node, m_varValues)
parseSensorPublish_call(node) ==
  LET r == parseSensorPublish(node, m_varValues, publishTopic_)
  IN /\ configCalls < MaxConfigCalls
     /\ configCalls' = configCalls + 1
     /\ publishTopic_' = r.topic
     /\ parseNode' = node
     /\ parseRet' = r.ret
     /\ parseCalls' = parseCalls + 1
     /\ UNCHANGED <<m_name, m_varValues, m_save_to_rawlog>>

\* a call of loadConfigFrom(root)
loadConfigFrom(root) ==
  LET name == IF root.name = NoAttr THEN m_name ELSE root.name
      varValues == [NAME |-> name, PARENT_NAME |-> VehicleName]
      r == parseSensorPublish(root.publish, varValues, publishTopic_)
  IN /\ configCalls < MaxConfigCalls
     /\ configCalls' = configCalls + 1
     /\ m_name' = name
     /\ m_varValues' = varValues
     /\ publishTopic_' = r.topic
     /\ parseNode' = root.publish
     /\ parseRet' = r.ret
     /\ parseCalls' = parseCalls + 1
     /\ m_sensor_period' = IF root.sensor_period = NoPeriod
                           THEN m_sensor_period
                           ELSE root.sensor_period
     /\ m_save_to_rawlog' = IF root.save_to_rawlog = NoAttr
                            THEN m_save_to_rawlog
                            ELSE root.save_to_rawlog

\* the prefixes the sensor classes ask a name for
NamePrefixes == {"laser", "camera"}

\* make_sure_we_have_a_name(prefix), for an owner that has numSensors
\* sensors already and is (isVehicle) or is not a VehicleBase
make_sure_we_have_a_name(prefix, isVehicle, numSensors) ==
  LET nextIdx == IF isVehicle THEN numSensors + 1 ELSE 0
  IN /\ configCalls < MaxConfigCalls
     /\ configCalls' = configCalls + 1
     /\ m_name' = IF m_name # "" THEN m_name
                  ELSE prefix \o ToString(nextIdx)
     /\ UNCHANGED <<m_varValues, publishTopic_, m_save_to_rawlog,
                    parseNode, parseRet, parseCalls>>

ConfigInit ==
  /\ m_name = ""
  /\ m_varValues = [NAME |-> "", PARENT_NAME |-> ""]
  /\ publishTopic_ = <<>>
  /\ m_save_to_rawlog = ""
  /\ parseNode = NullPublishNode
  /\ parseRet = FALSE
  /\ parseCalls = 0
  /\ configCalls = 0

(***************************************************************************)
(* SensorBase::reportNewObservation (SensorBase.cpp:155-202).  The call    *)
(* enqueues one task on m_threadPoolSendoutObs and drops the future; a     *)
(* pool thread takes the oldest task and runs its body: the World's hook,  *)
(* the publication (compiled in only with MVSIM_HAS_ZMQ and                *)
(* MVSIM_HAS_PROTOBUF), the log.  Each call the body makes is one step,    *)
(* so that the threads of the pool interleave; publishTopic, the           *)
(* construction of the log stream and the write to it may each throw,      *)
(* which ends the task with the exception stored in its future.            *)
(***************************************************************************)
NullObs == 0

\* the number of threads of the pool
PoolSizes == {1, 2}

IdleWorker == [pc |-> "idle", obs |-> NullObs]

\* the task's body with the hook after the sinks
task_steps_hook_last == <<"publish", "log", "hook">>

\* the task's body: lines 166, 169-185 and 188-199, in this order
task_steps == <<"hook", "publish", "log">>

\* the step of the body that follows the given one ("done" after the last)
StepAfter(step) ==
  LET i == CHOOSE k \in 1..Len(task_steps) : task_steps[k] = step
  IN IF i < Len(task_steps) THEN task_steps[i + 1] ELSE "done"

\* 'fut' goes out of scope at the end of reportNewObservation without
\* get(): an exception stored in it reaches no thread
fut_discarded(o, errors) == errors

\* the task of thread w ends, normally ("ready") or by the throw of the
\* named call
TaskFinish(w, outcome) ==
  /\ worker' = [worker EXCEPT ![w] = IdleWorker]
  /\ futures' = [futures EXCEPT ![worker[w].obs] = outcome]
  /\ steppingThreadErrors' =
       IF outcome # "ready"
       THEN fut_discarded(worker[w].obs, steppingThreadErrors)
       ELSE steppingThreadErrors

\* thread w goes on to the given step of its task
GoTo(w, step) ==
  IF step = "done"
  THEN TaskFinish(w, "ready")
  ELSE /\ worker' = [worker EXCEPT ![w].pc = step]
       /\ UNCHANGED <<futures, steppingThreadErrors>>

\* reportNewObservation(obs, context); a non-null obs is a new observation
reportNewObservation(isNull) ==
  LET obs == IF isNull THEN NullObs ELSE Len(futures) + 1
  IN /\ Len(reported) < MaxReports
     /\ reported' = Append(reported, obs)
     /\ IF obs = NullObs
        THEN UNCHANGED <<taskQueue, futures>>
        ELSE /\ taskQueue' = Append(taskQueue, obs)
             /\ futures' = Append(futures, "pending")
     /\ UNCHANGED <<hasZmqProtobuf, worker, hookCalls, publishCalls,
                    m_rawlog_io, logOpens, logAppends, steppingThreadErrors>>

\* an idle thread of the pool takes the newest task
worker_take_newest(w) ==
  /\ worker[w].pc = "idle"
  /\ taskQueue # <<>>
  /\ worker' = [worker EXCEPT ![w] = [pc |-> task_steps[1],
                                      obs |-> taskQueue[Len(taskQueue)]]]
  /\ taskQueue' = SubSeq(taskQueue, 1, Len(taskQueue) - 1)
  /\ UNCHANGED <<hasZmqProtobuf, reported, futures, hookCalls, publishCalls,
                 m_rawlog_io, logOpens, logAppends, steppingThreadErrors>>

\* an idle thread of the pool takes the oldest task
worker_take(w) ==
  /\ worker[w].pc = "idle"
  /\ taskQueue # <<>>
  /\ worker' = [worker EXCEPT ![w] = [pc |-> task_steps[1],
                                      obs |-> Head(taskQueue)]]
  /\ taskQueue' = Tail(taskQueue)
  /\ UNCHANGED <<hasZmqProtobuf, reported, futures, hookCalls, publishCalls,
                 m_rawlog_io, logOpens, logAppends, steppingThreadErrors>>

\* a task that calls the hook twice
task_hook_twice(w) ==
  /\ worker[w].pc = "hook"
  /\ hookCalls' = hookCalls \o <<[vehicle |-> VehicleName,
                                  obs |-> worker[w].obs],
                                 [vehicle |-> VehicleName,
                                  obs |-> worker[w].obs]>>
  /\ GoTo(w, StepAfter("hook"))
  /\ UNCHANGED <<hasZmqProtobuf, reported, taskQueue, publishCalls,
                 m_rawlog_io, logOpens, logAppends>>

\* line 166: ctxt.world->dispatchOnObservation(m_vehicle, o)
task_hook(w) ==
  /\ worker[w].pc = "hook"
  /\ hookCalls' = Append(hookCalls, [vehicle |-> VehicleName,
                                     obs |-> worker[w].obs])
  /\ GoTo(w, StepAfter("hook"))
  /\ UNCHANGED <<hasZmqProtobuf, reported, taskQueue, publishCalls,
                 m_rawlog_io, logOpens, logAppends>>

\* lines 169-185: the publication
task_publish(w) ==
  /\ worker[w].pc = "publish"
  /\ IF hasZmqProtobuf /\ publishTopic_ # <<>>
     THEN /\ publishCalls' = Append(publishCalls, [topic |-> publishTopic_,
                                                   obs |-> worker[w].obs])
          /\ \E ok \in BOOLEAN :
               IF ok THEN GoTo(w, StepAfter("publish"))
               ELSE TaskFinish(w, "publishTopic threw")
     ELSE /\ UNCHANGED publishCalls
          /\ GoTo(w, StepAfter("publish"))
  /\ UNCHANGED <<hasZmqProtobuf, reported, taskQueue, hookCalls,
                 m_rawlog_io, logOpens, logAppends>>

\* the log written whatever m_save_to_rawlog
task_log_always(w) ==
  /\ worker[w].pc = "log"
  /\ GoTo(w, IF m_rawlog_io = "null" THEN "open" ELSE "append")
  /\ UNCHANGED <<hasZmqProtobuf, reported, taskQueue, hookCalls,
                 publishCalls, m_rawlog_io, logOpens, logAppends>>

\* lines 188-190: the tests of m_save_to_rawlog and of m_rawlog_io
task_log(w) ==
  /\ worker[w].pc = "log"
  /\ IF m_save_to_rawlog # ""
     THEN GoTo(w, IF m_rawlog_io = "null" THEN "open" ELSE "append")
     ELSE GoTo(w, StepAfter("log"))
  /\ UNCHANGED <<hasZmqProtobuf, reported, taskQueue, hookCalls,
                 publishCalls, m_rawlog_io, logOpens, logAppends>>

\* lines 192-194: the stream is constructed and assigned, or the
\* constructor throws
task_open(w) ==
  /\ worker[w].pc = "open"
  /\ logOpens' = logOpens + 1
  /\ \E ok \in BOOLEAN :
       IF ok
       THEN /\ m_rawlog_io' = "open"
            /\ GoTo(w, "append")
       ELSE /\ UNCHANGED m_rawlog_io
            /\ TaskFinish(w, "CFileGZOutputStream threw")
  /\ UNCHANGED <<hasZmqProtobuf, reported, taskQueue, hookCalls,
                 publishCalls, logAppends>>

\* lines 197-198: arch << *o, which may throw
task_append(w) ==
  /\ worker[w].pc = "append"
  /\ logAppends' = Append(logAppends, worker[w].obs)
  /\ \E ok \in BOOLEAN :
       IF ok THEN GoTo(w, StepAfter("log"))
       ELSE TaskFinish(w, "archive write threw")
  /\ UNCHANGED <<hasZmqProtobuf, reported, taskQueue, hookCalls,
                 publishCalls, m_rawlog_io, logOpens>>

DispatchInit(builds, sizes) ==
  /\ hasZmqProtobuf \in builds
  /\ reported = <<>>
  /\ taskQueue = <<>>
  /\ \E n \in sizes : worker = [w \in 1..n |-> IdleWorker]
  /\ futures = <<>>
  /\ hookCalls = <<>>
  /\ publishCalls = <<>>
  /\ m_rawlog_io = "null"
  /\ logOpens = 0
  /\ logAppends = <<>>
  /\ steppingThreadErrors = <<>>

\* the <sensor> nodes the dispatching sensor is configured from
DispatchConfigs ==
  [name : {"lidar1"},
   publish : {NullPublishNode, PublishNode(<<"${NAME}", "/scan">>, NoAttr)},
   sensor_period : {NoPeriod},
   save_to_rawlog : {NoAttr, "obs.rawlog"}]

(***************************************************************************)
(* SensorBase::registerOnServer (SensorBase.cpp:204-214).  The embedding   *)
(* program calls it, through the World, when it connects to the server;    *)
(* nothing in the sensor ties that call to reportNewObservation.           *)
(***************************************************************************)
\* registerOnServer(c): the topic, when there is one, is advertised
registerOnServer ==
  /\ Len(advertised) < MaxRegisterCalls
  /\ configCalls > 0
  /\ advertised' = IF hasZmqProtobuf /\ publishTopic_ # <<>>
                   THEN Append(advertised, publishTopic_)
                   ELSE advertised

ServerInit == advertised = <<>>

(***************************************************************************)
(* The registries of the World and their visitors (World.h:153-160,        *)
(* 184-201, 259-260).  m_vehicles is a std::multimap keyed by name: it     *)
(* keeps entries with equal names, iterates in key order and, among equal  *)
(* keys, in insertion order.  m_world_elements is a std::list, appended    *)
(* to.  The bodies of the visitor runs are modelled from the               *)
(* specification (4.4).                                                    *)
(***************************************************************************)
\* the vehicle names the model draws, in key order
VehicleNames == <<"r1", "r2">>

KeyRank(name) == CHOOSE i \in DOMAIN VehicleNames : VehicleNames[i] = name

\* std::multimap::insert: after the entries whose key is not greater
MultimapInsert(map, entry) ==
  LET before == SelectSeq(map, LAMBDA e : KeyRank(e.name) <= KeyRank(entry.name))
      after == SelectSeq(map, LAMBDA e : KeyRank(e.name) > KeyRank(entry.name))
  IN before \o <<entry>> \o after

\* a vehicle of the given name is constructed and registered
insertVehicle(name) ==
  /\ nextObject <= MaxObjects
  /\ listOfVehicles' = MultimapInsert(listOfVehicles,
                                      [name |-> name, obj |-> nextObject])
  /\ nextObject' = nextObject + 1
  /\ UNCHANGED <<listOfWorldElements, visited, lastVisitor>>

\* a world element is constructed and registered
insertWorldElement ==
  /\ nextObject <= MaxObjects
  /\ listOfWorldElements' = Append(listOfWorldElements, nextObject)
  /\ nextObject' = nextObject + 1
  /\ UNCHANGED <<listOfVehicles, visited, lastVisitor>>

\* clear_all(): the registries are emptied
clear_all ==
  /\ listOfVehicles # <<>> \/ listOfWorldElements # <<>>
  /\ listOfVehicles' = <<>>
  /\ listOfWorldElements' = <<>>
  /\ UNCHANGED <<nextObject, visited, lastVisitor>>

\* the keys of the multimap, each once, in key order
RECURSIVE FirstOfEachKey(_)
FirstOfEachKey(map) ==
  IF map = <<>> THEN <<>>
  ELSE LET rest == SelectSeq(Tail(map), LAMBDA e : e.name # Head(map).name)
       IN <<Head(map)>> \o FirstOfEachKey(rest)

\* a visitor run that visits one vehicle per name
runVisitorOnVehicles_per_name ==
  /\ visited' = [i \in DOMAIN FirstOfEachKey(listOfVehicles) |->
                   FirstOfEachKey(listOfVehicles)[i].obj]
  /\ lastVisitor' = "vehicles"
  /\ UNCHANGED <<listOfVehicles, listOfWorldElements, nextObject>>

\* runVisitorOnVehicles(v): v.visit on every entry of m_vehicles
runVisitorOnVehicles ==
  /\ visited' = [i \in DOMAIN listOfVehicles |-> listOfVehicles[i].obj]
  /\ lastVisitor' = "vehicles"
  /\ UNCHANGED <<listOfVehicles, listOfWorldElements, nextObject>>

\* runVisitorOnWorldElements(v): v.visit on every entry of m_world_elements
runVisitorOnWorldElements ==
  /\ visited' = listOfWorldElements
  /\ lastVisitor' = "elements"
  /\ UNCHANGED <<listOfVehicles, listOfWorldElements, nextObject>>

VisitInit ==
  /\ listOfVehicles = <<>>
  /\ listOfWorldElements = <<>>
  /\ nextObject = 1
  /\ visited = <<>>
  /\ lastVisitor = "none"

(***************************************************************************)
(* The GUI thread (World.h:118-147).  World.h declares the thread, its two *)
(* atomic flags and the three operations; their bodies are modelled from   *)
(* the specification (5): close is a signal the rendering thread observes  *)
(* at its own cadence.                                                     *)
(***************************************************************************)
\* update_GUI(): the first call starts the GUI thread
update_GUI_first ==
  /\ m_gui_thread = "not started"
  /\ m_gui_thread' = "running"
  /\ m_gui_thread_running' = TRUE
  /\ UNCHANGED <<m_gui_thread_must_close, guiFrames, closeCalls, openQueries,
                 is_GUI_open_ret>>

\* close_GUI(): the request is flagged, nothing is waited for
close_GUI ==
  /\ closeCalls < MaxCloseCalls
  /\ closeCalls' = closeCalls + 1
  /\ m_gui_thread_must_close' = TRUE
  /\ UNCHANGED <<m_gui_thread, m_gui_thread_running, guiFrames, openQueries,
                 is_GUI_open_ret>>

\* is_GUI_open(), from any thread: one read of the atomic flag
is_GUI_open ==
  /\ openQueries < MaxOpenQueries
  /\ openQueries' = openQueries + 1
  /\ is_GUI_open_ret' = m_gui_thread_running
  /\ UNCHANGED <<m_gui_thread, m_gui_thread_running, m_gui_thread_must_close,
                 guiFrames, closeCalls>>

\* a GUI thread that never looks at m_gui_thread_must_close
internal_GUI_thread_deaf ==
  /\ m_gui_thread = "running"
  /\ guiFrames' = IF guiFrames < MaxFrames THEN guiFrames + 1 ELSE guiFrames
  /\ UNCHANGED <<m_gui_thread, m_gui_thread_running, m_gui_thread_must_close,
                 closeCalls, openQueries, is_GUI_open_ret>>

\* internal_GUI_thread(): one turn of the rendering loop
internal_GUI_thread ==
  /\ m_gui_thread = "running"
  /\ IF m_gui_thread_must_close
     THEN /\ m_gui_thread_running' = FALSE
          /\ m_gui_thread' = "finished"
          /\ UNCHANGED guiFrames
     ELSE /\ guiFrames' = IF guiFrames < MaxFrames THEN guiFrames + 1
                          ELSE guiFrames
          /\ UNCHANGED <<m_gui_thread, m_gui_thread_running>>
  /\ UNCHANGED <<m_gui_thread_must_close, closeCalls, openQueries,
                 is_GUI_open_ret>>

GuiInit ==
  /\ m_gui_thread = "not started"
  /\ m_gui_thread_running = FALSE
  /\ m_gui_thread_must_close = FALSE
  /\ guiFrames = 0
  /\ closeCalls = 0
  /\ openQueries = 0
  /\ is_GUI_open_ret = FALSE

(***************************************************************************)
(* The world lock m_world_cs (World.h:252-264).  World.h declares the      *)
(* mutex, the containers, the Box2D world and internal_one_timestep; the   *)
(* locking discipline is modelled from the specification (5): the          *)
(* stepping thread holds the lock for the whole of one discrete step       *)
(* (solver first, entities next), update_GUI holds it while it copies out  *)
(* a snapshot and renders without it.                                      *)
(***************************************************************************)
NoSnapshot == [entities |-> -1, bodies |-> -1, solverSteps |-> -1,
               entitySteps |-> -1]

\* std::mutex::lock by the given thread: waits until the mutex is free
Lock(thread) ==
  /\ m_world_cs = "free"
  /\ m_world_cs' = thread

\* the stepping thread starts a discrete step of its pass
stepper_lock ==
  /\ stepperPc = "idle"
  /\ stepsLeft > 0
  /\ Lock("stepper")
  /\ stepperPc' = "solver"
  /\ UNCHANGED <<numEntities, m_box2d_world, solverSteps, entitySteps,
                 stepsLeft, rendererPc, snapshot>>

\* internal_one_timestep: the physical solver advances the bodies
stepper_solver ==
  /\ stepperPc = "solver"
  /\ solverSteps' = solverSteps + 1
  /\ stepperPc' = "entities"
  /\ UNCHANGED <<m_world_cs, numEntities, m_box2d_world, entitySteps,
                 stepsLeft, rendererPc, snapshot>>

\* internal_one_timestep: the entities are updated from their bodies
stepper_entities ==
  /\ stepperPc = "entities"
  /\ entitySteps' = entitySteps + 1
  /\ stepperPc' = "unlock"
  /\ UNCHANGED <<m_world_cs, numEntities, m_box2d_world, solverSteps,
                 stepsLeft, rendererPc, snapshot>>

\* the end of the discrete step: the lock is released
stepper_unlock ==
  /\ stepperPc = "unlock"
  /\ m_world_cs' = "free"
  /\ stepsLeft' = stepsLeft - 1
  /\ stepperPc' = "idle"
  /\ UNCHANGED <<numEntities, m_box2d_world, solverSteps, entitySteps,
                 rendererPc, snapshot>>

\* update_GUI that copies the snapshot without taking the lock
renderer_lock_skipped ==
  /\ rendererPc = "idle"
  /\ rendererPc' = "copy entities"
  /\ UNCHANGED <<m_world_cs, numEntities, m_box2d_world, solverSteps,
                 entitySteps, stepperPc, stepsLeft, snapshot>>

\* update_GUI: the lock is taken for the snapshot
renderer_lock ==
  /\ rendererPc = "idle"
  /\ Lock("renderer")
  /\ rendererPc' = "copy entities"
  /\ UNCHANGED <<numEntities, m_box2d_world, solverSteps, entitySteps,
                 stepperPc, stepsLeft, snapshot>>

\* update_GUI: the entities are copied out
renderer_copy_entities ==
  /\ rendererPc = "copy entities"
  /\ snapshot' = [snapshot EXCEPT !.entities = numEntities,
                                  !.entitySteps = entitySteps]
  /\ rendererPc' = "copy bodies"
  /\ UNCHANGED <<m_world_cs, numEntities, m_box2d_world, solverSteps,
                 entitySteps, stepperPc, stepsLeft>>

\* update_GUI: the bodies are copied out
renderer_copy_bodies ==
  /\ rendererPc = "copy bodies"
  /\ snapshot' = [snapshot EXCEPT !.bodies = m_box2d_world,
                                  !.solverSteps = solverSteps]
  /\ rendererPc' = "unlock"
  /\ UNCHANGED <<m_world_cs, numEntities, m_box2d_world, solverSteps,
                 entitySteps, stepperPc, stepsLeft>>

\* update_GUI: the lock is released; the rendering goes on without it
renderer_unlock ==
  /\ rendererPc = "unlock"
  /\ m_world_cs' = IF m_world_cs = "renderer" THEN "free" ELSE m_world_cs
  /\ rendererPc' = "render"
  /\ UNCHANGED <<numEntities, m_box2d_world, solverSteps, entitySteps,
                 stepperPc, stepsLeft, snapshot>>

\* update_GUI: the snapshot is rendered
renderer_render ==
  /\ rendererPc = "render"
  /\ rendererPc' = "done"
  /\ UNCHANGED <<m_world_cs, numEntities, m_box2d_world, solverSteps,
                 entitySteps, stepperPc, stepsLeft, snapshot>>

\* a loaded world of n entities, one body each, and a stepping pass of k
\* discrete steps about to run
LockInit(sizes, passes) ==
  /\ m_world_cs = "free"
  /\ numEntities \in sizes
  /\ m_box2d_world = numEntities
  /\ solverSteps = 0
  /\ entitySteps = 0
  /\ stepperPc = "idle"
  /\ stepsLeft \in passes
  /\ rendererPc = "idle"
  /\ snapshot = NoSnapshot

(***************************************************************************)
(* Two threads calling SensorBase::factory at once (SensorBase.cpp:37-48,  *)
(* 87-116).  'done' is a plain static bool and classFactory_sensors a      *)
(* plain global: nothing orders one thread's test, store and               *)
(* registrations with the other's, so each is a step of its own.           *)
(***************************************************************************)
Threads == {1, 2}

\* the <sensor class="..."> nodes the two threads build from
RaceClasses == {"laser", "camera"}

\* the REGISTER_SENSOR statements of register_all_sensors, in order
Registrations == <<<<"laser", "LaserScanner">>,
                   <<"rgbd_camera", "DepthCameraSensor">>,
                   <<"camera", "CameraSensor">>>>

\* thread t goes to the given position; 'next' numbers the REGISTER_SENSOR
\* statement it is about to execute (0 elsewhere)
ThreadGoTo(t, at, next) ==
  threadPc' = [threadPc EXCEPT ![t] = [at |-> at, next |-> next]]

\* line 40: if (done) return;
thread_test_done(t) ==
  /\ threadPc[t].at = "test done"
  /\ ThreadGoTo(t, IF done THEN "create" ELSE "set done", 0)
  /\ UNCHANGED <<regVars, threadResult>>

\* line 43: done = true;
thread_set_done(t) ==
  /\ threadPc[t].at = "set done"
  /\ done' = TRUE
  /\ ThreadGoTo(t, "register", 1)
  /\ UNCHANGED <<classFactory_sensors, regCount, createOnMiss, threadResult>>

\* lines 45-47: the next REGISTER_SENSOR statement
thread_register(t) ==
  /\ threadPc[t].at = "register"
  /\ SetRegistry(REGISTER_SENSOR(RegistryState,
                                 Registrations[threadPc[t].next][1],
                                 Registrations[threadPc[t].next][2]))
  /\ IF threadPc[t].next < Len(Registrations)
     THEN ThreadGoTo(t, "register", threadPc[t].next + 1)
     ELSE ThreadGoTo(t, "create", 0)
  /\ UNCHANGED threadResult

\* lines 94-122: the rest of factory, on a <sensor class=sName> node
thread_create(t, sName) ==
  /\ threadPc[t].at = "create"
  /\ LET we == create(classFactory_sensors, sName, createOnMiss)
     IN threadResult' =
          [threadResult EXCEPT ![t] =
             IF we.kind = "null"
             THEN Outcome("error", "Unknown sensor type", "sensor")
             ELSE we]
  /\ ThreadGoTo(t, "returned", 0)
  /\ UNCHANGED regVars

RaceInit ==
  /\ threadPc = [t \in Threads |-> [at |-> "test done", next |-> 0]]
  /\ threadResult = [t \in Threads |-> NoOutcome]

RestInit == ServerInit /\ VisitInit /\ GuiInit /\ LockInit({0}, {1}) /\ RaceInit

(***************************************************************************)
(* The specifications.                                                     *)
(***************************************************************************)
InitStepping == StepInit(Timesteps, Periods) /\ FactoryInit /\ ConfigInit
  /\ DispatchInit({TRUE}, {1}) /\ RestInit

NextStepping ==
  \/ (\E dt \in Intervals : run_simulation_call(dt))
       /\ UNCHANGED <<regVars, loadVars, configVars, dispatchVars, restVars>>
  \/ internal_one_timestep /\ UNCHANGED <<regVars, loadVars, configVars, dispatchVars, restVars>>
  \/ run_simulation_return /\ UNCHANGED <<regVars, loadVars, configVars, dispatchVars, restVars>>
  \/ should_simulate_sensor_again /\ UNCHANGED <<regVars, loadVars, configVars, dispatchVars, restVars>>

SpecStepping == InitStepping /\ [][NextStepping]_vars

InitFactory == StepInit({D_0_1}, {D_0_1}) /\ FactoryInit /\ ConfigInit
  /\ DispatchInit({TRUE}, {1}) /\ RestInit

NextFactory ==
  \/ register_all_sensors_call /\ UNCHANGED <<stepVars, configVars, dispatchVars, restVars>>
  \/ (\E root \in Roots : factory_call(root)) /\ UNCHANGED <<stepVars, configVars, dispatchVars, restVars>>
  \/ (\E scene \in Scenes : load_from_XML(scene)) /\ UNCHANGED <<stepVars, configVars, dispatchVars, restVars>>

SpecFactory == InitFactory /\ [][NextFactory]_vars

stepVarsButPeriod == <<m_simul_timestep, m_simul_time, pendingTime, runPc,
                       vehiclePose, m_sensor_last_timestamp,
                       m_vehicle_pose_at_last_timestamp, requested, rounded,
                       gateCalls, gateCtx, gateRet, prevCtx, prevRet,
                       trueTimes, extraCalls>>

InitConfig == StepInit({D_0_1}, {D_0_1}) /\ FactoryInit /\ ConfigInit
  /\ DispatchInit({TRUE}, {1}) /\ RestInit

NextConfig ==
  \/ (\E node \in PublishNodes : parseSensorPublish_call(node))
       /\ UNCHANGED <<stepVars, regVars, loadVars, dispatchVars, restVars>>
  \/ (\E root \in SensorConfigs : loadConfigFrom(root))
       /\ UNCHANGED <<stepVarsButPeriod, regVars, loadVars, dispatchVars, restVars>>
  \/ (\E prefix \in NamePrefixes, isVehicle \in BOOLEAN,
         numSensors \in 0..MaxSensors :
           make_sure_we_have_a_name(prefix, isVehicle, numSensors))
       /\ UNCHANGED <<stepVars, regVars, loadVars, dispatchVars, restVars>>

SpecConfig == InitConfig /\ [][NextConfig]_vars

otherVars == <<stepVars, regVars, loadVars>>

InitDispatch ==
  /\ StepInit({D_0_1}, {D_0_1}) /\ FactoryInit /\ ConfigInit
  /\ DispatchInit(BOOLEAN, PoolSizes) /\ RestInit

\* the sensor is configured once, when the scene is loaded, and reports
\* its observations afterwards
NextDispatch ==
  \/ /\ configCalls = 0
     /\ \E root \in DispatchConfigs : loadConfigFrom(root)
     /\ UNCHANGED <<stepVarsButPeriod, regVars, loadVars, dispatchVars, restVars>>
  \/ /\ configCalls > 0
     /\ \E isNull \in BOOLEAN : reportNewObservation(isNull)
     /\ UNCHANGED <<otherVars, configVars, restVars>>
  \/ (\E w \in DOMAIN worker : worker_take(w))
       /\ UNCHANGED <<otherVars, configVars, restVars>>
  \/ (\E w \in DOMAIN worker : task_hook(w))
       /\ UNCHANGED <<otherVars, configVars, restVars>>
  \/ (\E w \in DOMAIN worker : task_publish(w))
       /\ UNCHANGED <<otherVars, configVars, restVars>>
  \/ (\E w \in DOMAIN worker : task_log(w))
       /\ UNCHANGED <<otherVars, configVars, restVars>>
  \/ (\E w \in DOMAIN worker : task_open(w))
       /\ UNCHANGED <<otherVars, configVars, restVars>>
  \/ (\E w \in DOMAIN worker : task_append(w))
       /\ UNCHANGED <<otherVars, configVars, restVars>>

SpecDispatch == InitDispatch /\ [][NextDispatch]_vars

InitServer ==
  /\ StepInit({D_0_1}, {D_0_1}) /\ FactoryInit /\ ConfigInit
  /\ DispatchInit(BOOLEAN, {1}) /\ RestInit

\* the sensor is configured once; the program then registers it on the
\* server and steps the simulation, in the order it chooses
NextServer ==
  \/ /\ configCalls = 0
     /\ \E root \in DispatchConfigs : loadConfigFrom(root)
     /\ UNCHANGED <<stepVarsButPeriod, regVars, loadVars, dispatchVars,
                    restVars>>
  \/ registerOnServer
       /\ UNCHANGED <<otherVars, configVars, dispatchVars, restButServer>>
  \/ /\ configCalls > 0
     /\ \E isNull \in BOOLEAN : reportNewObservation(isNull)
     /\ UNCHANGED <<otherVars, configVars, restVars>>
  \/ (\E w \in DOMAIN worker : worker_take(w))
       /\ UNCHANGED <<otherVars, configVars, restVars>>
  \/ (\E w \in DOMAIN worker : task_hook(w))
       /\ UNCHANGED <<otherVars, configVars, restVars>>
  \/ (\E w \in DOMAIN worker : task_publish(w))
       /\ UNCHANGED <<otherVars, configVars, restVars>>
  \/ (\E w \in DOMAIN worker : task_log(w))
       /\ UNCHANGED <<otherVars, configVars, restVars>>
  \/ (\E w \in DOMAIN worker : task_open(w))
       /\ UNCHANGED <<otherVars, configVars, restVars>>
  \/ (\E w \in DOMAIN worker : task_append(w))
       /\ UNCHANGED <<otherVars, configVars, restVars>>

SpecServer == InitServer /\ [][NextServer]_vars

baseVars == <<stepVars, regVars, loadVars, configVars, dispatchVars>>

restButVisit == <<serverVars, guiVars, lockVars, raceVars>>

InitVisitor ==
  /\ StepInit({D_0_1}, {D_0_1}) /\ FactoryInit /\ ConfigInit
  /\ DispatchInit({TRUE}, {1}) /\ RestInit

NextVisitor ==
  \/ (\E name \in {VehicleNames[i] : i \in DOMAIN VehicleNames} :
         insertVehicle(name))
       /\ UNCHANGED <<baseVars, restButVisit>>
  \/ insertWorldElement /\ UNCHANGED <<baseVars, restButVisit>>
  \/ clear_all /\ UNCHANGED <<baseVars, restButVisit>>
  \/ runVisitorOnVehicles /\ UNCHANGED <<baseVars, restButVisit>>
  \/ runVisitorOnWorldElements /\ UNCHANGED <<baseVars, restButVisit>>

SpecVisitor == InitVisitor /\ [][NextVisitor]_vars

restButGui == <<serverVars, visitVars, lockVars, raceVars>>

InitGui ==
  /\ StepInit({D_0_1}, {D_0_1}) /\ FactoryInit /\ ConfigInit
  /\ DispatchInit({TRUE}, {1}) /\ RestInit

GuiThreadStep == internal_GUI_thread /\ UNCHANGED <<baseVars, restButGui>>

NextGui ==
  \/ update_GUI_first /\ UNCHANGED <<baseVars, restButGui>>
  \/ close_GUI /\ UNCHANGED <<baseVars, restButGui>>
  \/ is_GUI_open /\ UNCHANGED <<baseVars, restButGui>>
  \/ GuiThreadStep

restButLock == <<serverVars, visitVars, guiVars, raceVars>>

InitLock ==
  /\ StepInit({D_0_1}, {D_0_1}) /\ FactoryInit /\ ConfigInit
  /\ DispatchInit({TRUE}, {1}) /\ ServerInit /\ VisitInit /\ GuiInit
  /\ LockInit(0..MaxObjects, 1..MaxPassSteps) /\ RaceInit

\* one stepping pass and one update_GUI, interleaved
NextLock ==
  \/ stepper_lock /\ UNCHANGED <<baseVars, restButLock>>
  \/ stepper_solver /\ UNCHANGED <<baseVars, restButLock>>
  \/ stepper_entities /\ UNCHANGED <<baseVars, restButLock>>
  \/ stepper_unlock /\ UNCHANGED <<baseVars, restButLock>>
  \/ renderer_lock /\ UNCHANGED <<baseVars, restButLock>>
  \/ renderer_copy_entities /\ UNCHANGED <<baseVars, restButLock>>
  \/ renderer_copy_bodies /\ UNCHANGED <<baseVars, restButLock>>
  \/ renderer_unlock /\ UNCHANGED <<baseVars, restButLock>>
  \/ renderer_render /\ UNCHANGED <<baseVars, restButLock>>

SpecLock == InitLock /\ [][NextLock]_vars

restButRace == <<serverVars, visitVars, guiVars, lockVars>>

raceOtherVars == <<stepVars, loadVars, configVars, dispatchVars, restButRace>>

InitRace ==
  /\ StepInit({D_0_1}, {D_0_1}) /\ FactoryInit /\ ConfigInit
  /\ DispatchInit({TRUE}, {1}) /\ RestInit

NextRace ==
  \/ (\E t \in Threads : thread_test_done(t)) /\ UNCHANGED raceOtherVars
  \/ (\E t \in Threads : thread_set_done(t)) /\ UNCHANGED raceOtherVars
  \/ (\E t \in Threads : thread_register(t)) /\ UNCHANGED raceOtherVars
  \/ (\E t \in Threads, sName \in RaceClasses : thread_create(t, sName))
       /\ UNCHANGED raceOtherVars

SpecRace == InitRace /\ [][NextRace]_vars

\* the GUI thread is an operating-system thread: it keeps being scheduled
SpecGui == InitGui /\ [][NextGui]_vars /\ WF_vars(GuiThreadStep)
(***************************************************************************)
(* Claims about the sampling gate and the stepping engine.                 *)
(***************************************************************************)
\* a >= b on the exact values
Geq(a, b) == a.hi > b.hi \/ (a.hi = b.hi /\ a.lo >= b.lo)

\* C1: every call of should_simulate_sensor returns true exactly when
\* context.simul_time >= m_sensor_last_timestamp + m_sensor_period (the sum as
\* the C++ expression forms it); a true result sets m_sensor_last_timestamp to
\* context.simul_time and records the owning vehicle's current pose, a false
\* result leaves the last-sample timestamp and the pose-at-sample unchanged.
C1_GateContract ==
  [][gateCalls' # gateCalls =>
       /\ gateRet' = Geq(gateCtx', DAdd(m_sensor_last_timestamp,
                                        m_sensor_period))
       /\ gateRet' => /\ m_sensor_last_timestamp' = gateCtx'
                      /\ m_vehicle_pose_at_last_timestamp' = vehiclePose'
       /\ ~gateRet' => /\ m_sensor_last_timestamp' = m_sensor_last_timestamp
                       /\ m_vehicle_pose_at_last_timestamp'
                            = m_vehicle_pose_at_last_timestamp]_vars

\* the gate has returned both results, and its last true result recorded a
\* pose other than the initial one
C1_Witness ==
  /\ gateRet
  /\ Len(trueTimes) < gateCalls
  /\ m_sensor_last_timestamp = gateCtx
  /\ m_vehicle_pose_at_last_timestamp = 1
  /\ vehiclePose = 1

\* C2 as stated: with a non-decreasing clock, two consecutive true results
\* are separated by simulated time >= p, and a gate call at the same clock
\* value right after a true result returns false.
C2_Original ==
  /\ \A i \in 1..(Len(trueTimes) - 1) :
       Geq(trueTimes[i + 1], ExactAdd(trueTimes[i], m_sensor_period))
  /\ (gateCalls >= 2 /\ prevRet /\ gateCtx = prevCtx) => ~gateRet

\* C2 as amended: two consecutive true results at t1 then t2 satisfy
\* t2 >= t1 + p with the sum rounded as the gate computes it, and whenever
\* t + p > t in double arithmetic (p > 0 and not absorbed) a gate call at
\* the same clock value right after a true result at t returns false.
C2_MinimumSeparation ==
  /\ \A i \in 1..(Len(trueTimes) - 1) :
       Geq(trueTimes[i + 1], DAdd(trueTimes[i], m_sensor_period))
  /\ (/\ gateCalls >= 2
      /\ prevRet
      /\ gateCtx = prevCtx
      /\ DLess(prevCtx, DAdd(prevCtx, m_sensor_period))) => ~gateRet

\* a sensor of positive period sampled twice, then was asked again at the
\* clock value of its last true result and answered false
C2_Witness ==
  /\ DLess(D_0, m_sensor_period)
  /\ Len(trueTimes) >= 2
  /\ gateCalls >= 2
  /\ prevRet
  /\ gateCtx = prevCtx
  /\ ~gateRet

\* C3: one sensor of period 0.5 s, h = 0.1 s, the clock starting at 0 and a
\* single run_simulation(1.0) with the gate evaluated once per step: the
\* gate returns true exactly twice, at simulated times 0.5 and 1.0.
C3_ScenarioOne ==
  (/\ m_simul_timestep = D_0_1
   /\ m_sensor_period = D_0_5
   /\ requested = <<D_1_0>>
   /\ runPc = "idle"
   /\ extraCalls = 0) => trueTimes = <<D_0_5, D_1_0>>

\* the clock is a whole multiple of h, and it is at most h behind the sum
\* of the requested intervals
ClockOnGrid ==
  /\ \E k \in 0..gateCalls : ExactTimes(k, m_simul_timestep) = m_simul_time
  /\ Geq(ExactAdd(m_simul_time, m_simul_timestep), ExactSum(requested))

BuiltinSensors == {<<"laser", "LaserScanner">>,
                   <<"rgbd_camera", "DepthCameraSensor">>,
                   <<"camera", "CameraSensor">>}

\* C5: over any sequence of register_all_sensors calls, made directly or
\* through SensorBase::factory, each sensor type name is registered exactly
\* once: once the first call has run, a later call adds no registry entry
\* and changes no binding, and each of "laser", "rgbd_camera" and "camera"
\* has been registered once, bound to its own class.
C5_RegisteredOnce ==
  [][/\ done => /\ classFactory_sensors' = classFactory_sensors
                /\ regCount' = regCount
     /\ done' => /\ \A b \in BuiltinSensors :
                      /\ regCount'[b[1]] = 1
                      /\ classFactory_sensors'[b[1]] = b[2]
                 /\ regCount'["lidar3d"] = 0
                 /\ classFactory_sensors'["lidar3d"] = Unregistered]_vars

\* three calls have been made, the last two through factory, which built a
\* sensor from the registry filled by the first
C5_Witness ==
  /\ done
  /\ opsDone = 3
  /\ loadResult.kind = "none"
  /\ factoryResult.kind = "sensor"
  /\ regCount["laser"] = 1

\* a <sensor> node without the 'class' attribute
MissingClass(root) == ~root.null /\ root.name = "sensor" /\ root.class = NoAttr

SceneHasMissingClass(scene) ==
  \E i \in 1..Len(scene.vehicles) :
    \E j \in 1..Len(scene.vehicles[i]) : MissingClass(scene.vehicles[i][j])

C7_UnknownTypeNamed ==
  (/\ ~factoryRoot.null
   /\ factoryRoot.name = "sensor"
   /\ factoryRoot.class # NoAttr
   /\ classFactory_sensors[factoryRoot.class] = Unregistered) =>
     /\ factoryResult.kind = "error"
     /\ factoryResult.arg = factoryRoot.class

(***************************************************************************)
(* Claims about the sensor's configuration.                                *)
(***************************************************************************)
\* C8: parseSensorPublish on a non-null node returns true and leaves the
\* publish topic equal to the parsed publish_topic when 'enabled' is absent
\* or true (the topic it had when the node has no publish_topic), and
\* empty when 'enabled' is false whatever the publish_topic; on a null
\* node it returns false and leaves the publish topic unchanged.
C8_ParsePublish ==
  [][parseCalls' # parseCalls =>
       LET node == parseNode'
       IN /\ node.null => (~parseRet' /\ publishTopic_' = publishTopic_)
          /\ ~node.null =>
               /\ parseRet'
               /\ node.enabled = "false" => publishTopic_' = <<>>
               /\ (node.enabled # "false" /\ node.publish_topic # NoChild) =>
                    publishTopic_' = ParseString(node.publish_topic,
                                                 m_varValues')
               /\ (node.enabled # "false" /\ node.publish_topic = NoChild) =>
                    publishTopic_' = publishTopic_]_vars

\* a topic was parsed with ${NAME} expanded, a null node then left it alone,
\* and a node with enabled = false and a publish_topic of its own cleared it
C8_Witness ==
  /\ parseCalls = 3
  /\ m_name = "lidar1"
  /\ parseRet
  /\ parseNode = PublishNode(<<"/scan">>, "false")
  /\ publishTopic_ = <<>>

(***************************************************************************)
(* Claims about the dispatch of the observations.                          *)
(***************************************************************************)
\* the task of observation o has run to its end, normally or not
Finished(o) == futures[o] # "pending"

\* the task of observation o ended by a throw
Failed(o) == futures[o] \notin {"pending", "ready"}

Hooked(o) == \E i \in DOMAIN hookCalls : hookCalls[i].obs = o

PublishedTimes(o) ==
  Cardinality({i \in DOMAIN publishCalls : publishCalls[i].obs = o})

\* the sensor was configured with a publish topic and no log sink path
PublishOnly ==
  /\ configCalls > 0
  /\ publishTopic_ # <<>>
  /\ m_save_to_rawlog = ""

\* the publish calls are calls to the sensor's topic, at most one per
\* observation and exactly one once its task has run; the log is untouched
OnePublishNoLog ==
  /\ \A i \in DOMAIN publishCalls :
       /\ publishCalls[i].topic = publishTopic_
       /\ publishCalls[i].obs \in DOMAIN futures
  /\ \A o \in DOMAIN futures :
       /\ PublishedTimes(o) <= 1
       /\ Finished(o) => PublishedTimes(o) = 1
  /\ logOpens = 0
  /\ logAppends = <<>>
  /\ m_rawlog_io = "null"

C10_SinkFailureIsolated ==
  /\ \A o \in DOMAIN futures : Failed(o) => Hooked(o)
  /\ steppingThreadErrors = <<>>

\* the publication of one observation threw, the write of another to the
\* log threw, and the hook was called for both
C10_Witness ==
  /\ Len(futures) = 2
  /\ futures[1] = "publishTopic threw"
  /\ futures[2] = "archive write threw"
  /\ Hooked(1) /\ Hooked(2)
  /\ Len(reported) = 2

\* C11: for a sensor with both a publish topic and a log sink path, a
\* throw of the publish step for an observation does not abort the other
\* sinks: once the task has ended the observation has been appended to
\* the log.
C11_LogAfterPublishFailure ==
  (publishTopic_ # <<>> /\ m_save_to_rawlog # "") =>
    \A o \in DOMAIN futures :
      futures[o] = "publishTopic threw" =>
        \E i \in DOMAIN logAppends : logAppends[i] = o

\* the observations some sink has been called for
SinkObs ==
  {hookCalls[i].obs : i \in DOMAIN hookCalls}
    \cup {publishCalls[i].obs : i \in DOMAIN publishCalls}
    \cup {logAppends[i] : i \in DOMAIN logAppends}

\* this step calls a sink (hook, publish or log append) for observation o
SinkAction(o) ==
  \/ hookCalls' = Append(hookCalls, [vehicle |-> VehicleName, obs |-> o])
  \/ publishCalls' = Append(publishCalls, [topic |-> publishTopic_, obs |-> o])
  \/ logAppends' = Append(logAppends, o)

\* every sink call is for an observation reported no earlier than those the
\* sinks have been called for already (observations are numbered in the
\* order they are reported)
SinksInReportOrder ==
  \A o \in DOMAIN futures :
    SinkAction(o) => \A q \in SinkObs : q <= o

C13_AdvertiseBeforePublish ==
  /\ \A i \in DOMAIN publishCalls :
       \E j \in DOMAIN advertised : advertised[j] = publishCalls[i].topic
  /\ \A j, k \in DOMAIN advertised :
       advertised[j] = advertised[k] => j = k

(***************************************************************************)
(* Claims about the sensor's name.                                         *)
(***************************************************************************)
\* C14: once the sensor's name is non-empty (from the 'name' attribute in
\* loadConfigFrom or generated by make_sure_we_have_a_name), no later
\* loadConfigFrom or make_sure_we_have_a_name call changes it.
C14_NameImmutable == [][m_name # "" => m_name' = m_name]_vars

(***************************************************************************)
(* Claims about the visitors.                                              *)
(***************************************************************************)
\* the number of times object x occurs in the sequence q
Occurrences(q, x) == Cardinality({i \in DOMAIN q : q[i] = x})

\* C15: a run of runVisitorOnVehicles visits each registered vehicle
\* exactly once, vehicles that share a name included, so the number of
\* visits is the size of the vehicle registry; a run of
\* runVisitorOnWorldElements visits each world element exactly once, in
\* insertion order (objects are numbered in the order they are inserted).
C15_VisitEachOnce ==
  [][/\ lastVisitor' = "vehicles" /\ visited' # visited =>
          /\ Len(visited') = Len(listOfVehicles)
          /\ \A i \in DOMAIN listOfVehicles :
               Occurrences(visited', listOfVehicles[i].obj) = 1
     /\ lastVisitor' = "elements" /\ visited' # visited =>
          /\ Len(visited') = Len(listOfWorldElements)
          /\ \A i \in DOMAIN listOfWorldElements :
               Occurrences(visited', listOfWorldElements[i]) = 1
          /\ \A i, j \in DOMAIN visited' :
               i < j => visited'[i] < visited'[j]]_vars

\* three vehicles, two of them sharing a name, were all visited; the
\* vehicle inserted last was visited second, by its key
C15_Witness ==
  /\ lastVisitor = "vehicles"
  /\ Len(listOfVehicles) = 3
  /\ listOfVehicles[1].name = listOfVehicles[2].name
  /\ visited = <<1, 3, 2>>

(***************************************************************************)
(* Claims about the GUI.                                                   *)
(***************************************************************************)
\* C16: after close_GUI() is called while the GUI is open, the GUI thread
\* (which keeps being scheduled) ends and is_GUI_open() returns false from
\* then on; is_GUI_open() is a read that waits for nothing, so it can
\* always be taken; a further close_GUI() call changes nothing of the GUI.
C16_CloseEventuallyObserved ==
  /\ (m_gui_thread_must_close /\ m_gui_thread_running)
       ~> [](~m_gui_thread_running)
  /\ [][openQueries' # openQueries =>
          is_GUI_open_ret' = m_gui_thread_running]_vars
  /\ [](openQueries < MaxOpenQueries => ENABLED is_GUI_open)
  /\ [][(closeCalls' # closeCalls /\ m_gui_thread_must_close) =>
          UNCHANGED <<m_gui_thread, m_gui_thread_running,
                      m_gui_thread_must_close>>]_vars

\* the GUI was open and rendering, close_GUI() was called twice, the GUI
\* thread ended, and a later is_GUI_open() returned false
C16_Witness ==
  /\ guiFrames > 0
  /\ closeCalls = 2
  /\ m_gui_thread = "finished"
  /\ ~m_gui_thread_running
  /\ openQueries > 0
  /\ ~is_GUI_open_ret

(***************************************************************************)
(* Claims about the world lock.                                            *)
(***************************************************************************)
\* the stepping thread is inside a discrete step
StepperInside == stepperPc \in {"solver", "entities", "unlock"}

\* update_GUI is copying its snapshot out
RendererInside == rendererPc \in {"copy entities", "copy bodies", "unlock"}

\* C17: under every interleaving of one stepping pass and one update_GUI,
\* what update_GUI copies out under the world lock is consistent (as many
\* entities as bodies, and the entities updated for exactly the steps the
\* solver has made), and the discrete step and the copy never hold the
\* world lock at the same time.
C17_SnapshotConsistent ==
  /\ ~(StepperInside /\ RendererInside)
  /\ StepperInside => m_world_cs = "stepper"
  /\ RendererInside => m_world_cs = "renderer"
  /\ rendererPc \in {"unlock", "render", "done"} =>
       /\ snapshot.entities = snapshot.bodies
       /\ snapshot.entitySteps = snapshot.solverSteps

\* the snapshot was taken between the two discrete steps of the pass, and
\* the pass ended while the snapshot was being rendered
C17_Witness ==
  /\ rendererPc = "render"
  /\ snapshot.entities = 2 /\ snapshot.bodies = 2
  /\ snapshot.solverSteps = 1 /\ snapshot.entitySteps = 1
  /\ solverSteps = 2 /\ entitySteps = 2
  /\ stepsLeft = 0

(***************************************************************************)
(* Claims about the hook and the log.                                      *)
(***************************************************************************)
HookedTimes(o) ==
  Cardinality({i \in DOMAIN hookCalls : hookCalls[i].obs = o})

\* the non-null observations reported so far
ReportedObs == {reported[i] : i \in DOMAIN reported} \ {NullObs}

\* C18: the World's hook is invoked once for each non-null observation
\* reported (never twice, and once by the time its task has ended), with
\* the sensor's owning entity and that observation, and before the
\* publish and log steps of the same task; a null observation enqueues no
\* task and causes no hook, publish or log append.
C18_HookOncePerObservation ==
  /\ DOMAIN futures = ReportedObs
  /\ \A i \in DOMAIN taskQueue : taskQueue[i] \in ReportedObs
  /\ \A o \in ReportedObs :
       /\ HookedTimes(o) <= 1
       /\ Finished(o) => HookedTimes(o) = 1
  /\ \A i \in DOMAIN hookCalls :
       /\ hookCalls[i].vehicle = VehicleName
       /\ hookCalls[i].obs \in ReportedObs
  /\ \A i \in DOMAIN publishCalls : Hooked(publishCalls[i].obs)
  /\ \A i \in DOMAIN logAppends : Hooked(logAppends[i])
  /\ \A w \in DOMAIN worker :
       worker[w].pc \in {"publish", "log", "open", "append"} =>
         Hooked(worker[w].obs)
  /\ SinkObs \subseteq ReportedObs

\* a null observation and then a non-null one were reported; the task of
\* the second called the hook, published and appended to the log
C18_Witness ==
  /\ reported = <<NullObs, 1>>
  /\ futures = <<"ready">>
  /\ hookCalls = <<[vehicle |-> VehicleName, obs |-> 1]>>
  /\ Len(publishCalls) = 1
  /\ logAppends = <<1>>

\* C19: for a sensor with a log sink path the log file is opened at most
\* once, by the task of the first dispatched observation and not before,
\* and every dispatched observation is appended exactly once (by the time
\* its task has ended); for a sensor with no log sink path the file is
\* never opened.
C19_LogOpenedOnceAppendedOnce ==
  /\ m_save_to_rawlog # "" =>
       /\ logOpens <= 1
       /\ hookCalls = <<>> => logOpens = 0
       /\ \A o \in DOMAIN futures :
            /\ Occurrences(logAppends, o) <= 1
            /\ Finished(o) => Occurrences(logAppends, o) = 1
       /\ (1 \in DOMAIN futures /\ Finished(1)) => logOpens = 1
  /\ m_save_to_rawlog = "" =>
       (logOpens = 0 /\ logAppends = <<>> /\ m_rawlog_io = "null")

(***************************************************************************)
(* Claims about concurrent factory calls.                                  *)
(***************************************************************************)
\* thread t's register_all_sensors call has returned
RegisterReturned(t) == threadPc[t].at \in {"create", "returned"}

\* C20: when two threads call SensorBase::factory at once for registered
\* class names, in every interleaving each sensor type is registered at
\* most once (exactly once when both calls have returned), a thread whose
\* register_all_sensors call has returned finds the three types in the
\* registry, and neither call fails with an unknown-type error.
C20_ConcurrentFactory ==
  /\ \A b \in BuiltinSensors : regCount[b[1]] <= 1
  /\ \A t \in Threads :
       /\ RegisterReturned(t) =>
            \A b \in BuiltinSensors : classFactory_sensors[b[1]] = b[2]
       /\ threadResult[t].kind # "error"
       /\ threadPc[t].at = "returned" => threadResult[t].kind = "sensor"

====
